---- MODULE Spec2Model ----
(***************************************************************************)
(* Video processing pipeline: the Event Grid starter                      *)
(* (VideoProcessingStarter), the durable orchestrator                     *)
(* (VideoProcessingOrchestrator), the activities' outcomes as recorded in *)
(* the instance's history, and the status endpoint                        *)
(* (VideoProcessingStatus).                                               *)
(*                                                                         *)
(* An orchestration instance is its input, its runtime status and its     *)
(* history of events.  Every episode of the orchestrator re-runs          *)
(* orchestrator_function from its first line against the recorded        *)
(* history: a yielded call_activity whose result is recorded returns that *)
(* result (or raises its failure), the first one without a result is      *)
(* scheduled (once) and suspends the episode.                             *)
(***************************************************************************)
EXTENDS Integers, Sequences, FiniteSets, TLC

\* ------------------------------------------------------------------ bounds

\* The clock runs from 0 to MaxTime.
MaxTime == 1

\* ------------------------------------------------------------- the pipeline

NumStages == 5

\* The embeddings block written before the analysis block.
StepName_Swapped ==
  <<"metadata", "embeddings", "analysis", "search_storage", "insights">>

\* Keys of orchestration_result["steps"], in the order the code writes them.
StepName ==
  <<"metadata", "analysis", "embeddings", "search_storage", "insights">>

\* Names the orchestrator passes to context.call_activity.
ActivityName ==
  <<"ExtractVideoMetadata", "AnalyzeVideoContent", "GenerateEmbeddings",
    "StoreInAzureSearch", "GenerateVideoInsights">>

\* The message each activity raises with (raise Exception(f"... failed: ...")).
ErrorMessage ==
  <<"Metadata extraction failed", "Video analysis failed",
    "Embeddings generation failed", "Search storage failed",
    "Insights generation failed">>

\* Instance identifiers the orchestration client hands out.
InstanceIds == {"i1"}

\* What each activity can return: every activity returns a dict.
ActivityResults(k) ==
  CASE k = 1 -> { [file_info |-> "f1"], [file_info |-> "f2"] }
    [] k = 2 -> { [analysis_id |-> "a1"] }
    [] k = 3 -> { [embeddings |-> "e1"] }
    [] k = 4 -> { [document_id |-> "d1", status |-> "success"],
                  [document_id |-> "d2", status |-> "success"] }
    [] k = 5 -> { [insights |-> "s1", status |-> "completed"] }

AllResults == UNION { ActivityResults(k) : k \in 1..NumStages }

\* Python's None.
None == "None"

\* The empty dict.  It also stands for None where the code expects a dict
\* or None and only tests the value for truth (status.input_, status.output).
EmptyDict == <<>>

\* dict.get(key): the value, or None when the key is absent.
Get(d, key) == IF key \in DOMAIN d THEN d[key] ELSE None

\* datetime.isoformat() and datetime.fromisoformat(): a datetime is its
\* number of seconds, its ISO form a tagged text.
isoformat(t) == <<"iso", t>>

fromisoformat(s) == s[2]

\* ---------------------------------------------------------------- strings

\* A str is the sequence of its characters; the absent value of a parameter
\* or dict entry that holds a str is NoneStr.
NoneStr == <<None>>

\* bool(s) of a str or None.
Truthy(s) == s # NoneStr /\ s # <<>>

\* str.lower() on one character.
LowerChar(c) ==
  CASE c = "A" -> "a"
    [] c = "B" -> "b"
    [] c = "C" -> "c"
    [] c = "D" -> "d"
    [] c = "E" -> "e"
    [] c = "F" -> "f"
    [] c = "G" -> "g"
    [] c = "H" -> "h"
    [] c = "I" -> "i"
    [] c = "J" -> "j"
    [] c = "K" -> "k"
    [] c = "L" -> "l"
    [] c = "M" -> "m"
    [] c = "N" -> "n"
    [] c = "O" -> "o"
    [] c = "P" -> "p"
    [] c = "Q" -> "q"
    [] c = "R" -> "r"
    [] c = "S" -> "s"
    [] c = "T" -> "t"
    [] c = "U" -> "u"
    [] c = "V" -> "v"
    [] c = "W" -> "w"
    [] c = "X" -> "x"
    [] c = "Y" -> "y"
    [] c = "Z" -> "z"
    [] OTHER -> c

\* A lower() that leaves the text as it is.
lower_Identity(s) == s

\* str.lower().
lower(s) == [j \in 1..Len(s) |-> LowerChar(s[j])]

\* str.endswith(suffix).
endswith(s, suffix) ==
  /\ Len(s) >= Len(suffix)
  /\ SubSeq(s, Len(s) - Len(suffix) + 1, Len(s)) = suffix

RECURSIVE SplitFrom(_, _, _, _)
\* The pieces of s from position j on, cur being the piece under way.
SplitFrom(s, sep, j, cur) ==
  IF j > Len(s) THEN <<cur>>
  ELSE IF s[j] = sep THEN <<cur>> \o SplitFrom(s, sep, j + 1, <<>>)
  ELSE SplitFrom(s, sep, j + 1, Append(cur, s[j]))

\* str.split(sep) for a one-character separator.
split(s, sep) == SplitFrom(s, sep, 1, <<>>)


\* ------------------------------------------------- VideoProcessingStarter

\* is_video_file, lines 69-78.
video_content_types ==
  << <<"v", "i", "d", "e", "o", "/", "m", "p", "4">>,
    <<"v", "i", "d", "e", "o", "/", "a", "v", "i">>,
    <<"v", "i", "d", "e", "o", "/", "m", "o", "v">>,
    <<"v", "i", "d", "e", "o", "/", "w", "m", "v">>,
    <<"v", "i", "d", "e", "o", "/", "f", "l", "v">>,
    <<"v", "i", "d", "e", "o", "/", "w", "e", "b", "m">>,
    <<"v", "i", "d", "e", "o", "/", "q", "u", "i", "c", "k", "t", "i", "m", "e">>,
    <<"v", "i", "d", "e", "o", "/", "x", "-", "m", "s", "v", "i", "d", "e", "o">> >>

\* is_video_file, line 85.
video_extensions ==
  << <<".", "m", "p", "4">>,
    <<".", "a", "v", "i">>,
    <<".", "m", "o", "v">>,
    <<".", "w", "m", "v">>,
    <<".", "f", "l", "v">>,
    <<".", "w", "e", "b", "m">>,
    <<".", "m", "k", "v">> >>

\* The elements of a list.
Elems(list) == {list[j] : j \in 1..Len(list)}

\* dict.get(key, default).
GetOr(d, key, default) == IF key \in DOMAIN d THEN d[key] ELSE default

\* A classifier that never looks at the name.
is_video_file_NoFallback(content_type, blob_name) ==
  /\ Truthy(content_type)
  /\ lower(content_type) \in Elems(video_content_types)

\* is_video_file (lines 64-88).
is_video_file(content_type, blob_name) ==
  IF Truthy(content_type) /\ lower(content_type) \in Elems(video_content_types)
    THEN TRUE
  ELSE IF Truthy(blob_name)
    THEN \E j \in 1..Len(video_extensions) :
           endswith(lower(blob_name), video_extensions[j])
  ELSE FALSE

\* ---------------------------------------------------- shared.utils.config

\* Config.SUPPORTED_VIDEO_FORMATS (lines 42-45).
SUPPORTED_VIDEO_FORMATS ==
  << <<"v", "i", "d", "e", "o", "/", "m", "p", "4">>,
     <<"v", "i", "d", "e", "o", "/", "a", "v", "i">>,
     <<"v", "i", "d", "e", "o", "/", "m", "o", "v">>,
     <<"v", "i", "d", "e", "o", "/", "w", "m", "v">>,
     <<"v", "i", "d", "e", "o", "/", "f", "l", "v">>,
     <<"v", "i", "d", "e", "o", "/", "w", "e", "b", "m">>,
     <<"v", "i", "d", "e", "o", "/", "q", "u", "i", "c", "k", "t", "i", "m", "e">>,
     <<"v", "i", "d", "e", "o", "/", "x", "-", "m", "s", "v", "i", "d", "e", "o">> >>

\* A list of extensions without .mkv.
SUPPORTED_VIDEO_EXTENSIONS_NoMkv ==
  << <<".", "m", "p", "4">>,
     <<".", "a", "v", "i">>,
     <<".", "m", "o", "v">>,
     <<".", "w", "m", "v">>,
     <<".", "f", "l", "v">>,
     <<".", "w", "e", "b", "m">> >>

\* Config.SUPPORTED_VIDEO_EXTENSIONS (lines 47-49).
SUPPORTED_VIDEO_EXTENSIONS ==
  << <<".", "m", "p", "4">>,
     <<".", "a", "v", "i">>,
     <<".", "m", "o", "v">>,
     <<".", "w", "m", "v">>,
     <<".", "f", "l", "v">>,
     <<".", "w", "e", "b", "m">>,
     <<".", "m", "k", "v">> >>

\* shared.utils.config.is_video_file (lines 112-129).
config_is_video_file(content_type, filename) ==
  IF Truthy(content_type)
     /\ lower(content_type) \in Elems(SUPPORTED_VIDEO_FORMATS)
    THEN TRUE
  ELSE IF Truthy(filename)
    THEN \E j \in 1..Len(SUPPORTED_VIDEO_EXTENSIONS) :
           endswith(lower(filename), SUPPORTED_VIDEO_EXTENSIONS[j])
  ELSE FALSE

\* ------------------------------------------------- VideoProcessingStarter

\* extract_container_name (lines 53-61): the element after "containers".
extract_container_name(subject) ==
  LET parts == split(subject, "/")
      hits == {j \in 1..Len(parts) : parts[j] = <<"c", "o", "n", "t", "a", "i", "n", "e", "r", "s">>}
  IN IF hits = {}
       THEN <<>>
       ELSE LET container_index ==
                  (CHOOSE j \in hits : \A k \in hits : j <= k) + 1
            IN IF container_index <= Len(parts)
                 THEN parts[container_index] ELSE <<>>

\* The last element of a list (parts[-1]).
Last(list) == list[Len(list)]

\* Lines 21-29: the video_info dict built from the event.
VideoInfo(event_data) ==
  [blob_url       |-> GetOr(event_data, "url", None),
   blob_name      |-> IF Truthy(GetOr(event_data, "subject", NoneStr))
                        THEN Last(split(event_data.subject, "/"))
                        ELSE NoneStr,
   container_name |-> extract_container_name(
                        GetOr(event_data, "subject", <<>>)),
   event_type     |-> GetOr(event_data, "eventType", None),
   event_time     |-> GetOr(event_data, "eventTime", None),
   content_type   |-> GetOr(GetOr(event_data, "data", EmptyDict),
                            "contentType", <<>>),
   content_length |-> GetOr(GetOr(event_data, "data", EmptyDict),
                            "contentLength", 0)]

\* Event Grid events of the deployment: a video by its content type, a video
\* by its extension alone (no content type in the event), and an image.
Events ==
  { [url |-> "u1", eventType |-> "Microsoft.Storage.BlobCreated",
     eventTime |-> "t1",
     subject |-> <<"/", "b", "l", "o", "b", "S", "e", "r", "v", "i", "c", "e", "s", "/", "d", "e", "f", "a", "u", "l", "t", "/", "c", "o", "n", "t", "a", "i", "n", "e", "r", "s", "/", "v", "i", "d", "e", "o", "s", "/", "b", "l", "o", "b", "s", "/", "d", "e", "m", "o", ".", "m", "p", "4">>,
     data |-> [contentType |-> <<"v", "i", "d", "e", "o", "/", "m", "p", "4">>,
               contentLength |-> 1024]],
    [url |-> "u2", eventType |-> "Microsoft.Storage.BlobCreated",
     eventTime |-> "t2",
     subject |-> <<"/", "b", "l", "o", "b", "S", "e", "r", "v", "i", "c", "e", "s", "/", "d", "e", "f", "a", "u", "l", "t", "/", "c", "o", "n", "t", "a", "i", "n", "e", "r", "s", "/", "m", "e", "d", "i", "a", "/", "b", "l", "o", "b", "s", "/", "c", "l", "i", "p", ".", "m", "k", "v">>,
     data |-> [contentLength |-> 2048]],
    [url |-> "u3", eventType |-> "Microsoft.Storage.BlobCreated",
     eventTime |-> "t3",
     subject |-> <<"/", "b", "l", "o", "b", "S", "e", "r", "v", "i", "c", "e", "s", "/", "d", "e", "f", "a", "u", "l", "t", "/", "c", "o", "n", "t", "a", "i", "n", "e", "r", "s", "/", "d", "o", "c", "s", "/", "b", "l", "o", "b", "s", "/", "p", "i", "c", ".", "p", "n", "g">>,
     data |-> [contentType |-> <<"i", "m", "a", "g", "e", "/", "p", "n", "g">>,
               contentLength |-> 512]] }

\* Content types an event can carry (NoneStr: "contentType": null).
ContentTypes ==
  { <<"v", "i", "d", "e", "o", "/", "m", "p", "4">>,
    <<"V", "I", "D", "E", "O", "/", "M", "P", "4">>,
    <<"v", "i", "d", "e", "o", "/", "x", "-", "m", "s", "v", "i", "d", "e", "o">>,
    <<"v", "i", "d", "e", "o", "/", "x", "-", "m", "a", "t", "r", "o", "s", "k", "a">>,
    <<"i", "m", "a", "g", "e", "/", "p", "n", "g">>,
    <<>>,
    NoneStr }

\* Blob names an event can name.
BlobNames ==
  { <<"x">>,
    <<"c", "l", "i", "p", ".", "m", "k", "v">>,
    <<"p", "i", "c", ".", "p", "n", "g">>,
    <<"A", ".", "M", "P", "4">>,
    <<"m", "p", "4">>,
    <<"a", ".", "m", "p", "4", ".", "t", "x", "t">> }

\* Blob names with a virtual directory in them as well.
BlobPaths ==
  BlobNames \cup { <<"2", "0", "2", "4", "/", "A", ".", "M", "P", "4">> }

\* Containers an event can name, one of them called like the path element.
ContainerNames ==
  { <<"v", "i", "d", "e", "o", "s">>,
    <<"c", "o", "n", "t", "a", "i", "n", "e", "r", "s">> }

\* What Event Grid puts before the container in a subject.
SubjectPrefix ==
  <<"/", "b", "l", "o", "b", "S", "e", "r", "v", "i", "c", "e", "s", "/", "d", "e", "f", "a", "u", "l", "t">>

\* The subject Event Grid gives blob b of container c:
\* /blobServices/default/containers/{container}/blobs/{blob}.
ShapedSubject(c, b) ==
  SubjectPrefix \o <<"/", "c", "o", "n", "t", "a", "i", "n", "e", "r", "s", "/">> \o c
                \o <<"/", "b", "l", "o", "b", "s", "/">> \o b

\* Subjects of another shape: nothing after "containers", no such element,
\* the empty subject.
OddSubjects ==
  { SubjectPrefix \o <<"/", "c", "o", "n", "t", "a", "i", "n", "e", "r", "s">>,
    SubjectPrefix \o <<"/", "c", "o", "n", "t", "a", "i", "n", "e", "r", "s", "/">>,
    <<"/", "q", "u", "e", "u", "e", "S", "e", "r", "v", "i", "c", "e", "s", "/", "d", "e", "f", "a", "u", "l", "t", "/", "x", ".", "m", "p", "4">>,
    <<>> }

\* Every event over ContentTypes and the subjects, the content type or the
\* subject left out of the event included.
WideEvents ==
  LET base == [url |-> "u1", eventType |-> "Microsoft.Storage.BlobCreated",
               eventTime |-> "t1"]
      Subjects == {[subject |-> ShapedSubject(c, b)] :
                     c \in ContainerNames, b \in BlobPaths}
                  \cup {[subject |-> s] : s \in OddSubjects}
                  \cup {EmptyDict}
      Datas == {[contentType |-> c, contentLength |-> 1024] :
                  c \in ContentTypes} \cup {[contentLength |-> 1024]}
  IN {base @@ s @@ [data |-> d] : s \in Subjects, d \in Datas}

\* video_info for each event, worked out once.
VideoInfoOf == [e \in Events \cup WideEvents |-> VideoInfo(e)]

VARIABLES
  now,                \* the wall clock
  created,            \* the instance ids start_new has created
  input,              \* input[i]: the instance's input (client_input)
  runtime_status,     \* runtime_status[i]: Pending, Running, Completed, Failed
  created_time,       \* created_time[i]
  last_updated_time,  \* last_updated_time[i]
  history,            \* history[i]: the instance's recorded events
  output,             \* output[i]: what orchestrator_function returned
  replayed,           \* replayed[i]: the orchestrator was executed again over
                      \* a history it had run over (as after a restart)
  response,           \* the response to the request served by the last step
  starter,            \* how the starter's run ended, if it ran in the last step
  worker              \* the worker process: its environment and the
                      \* module-level client instances of shared.clients

vars ==
  <<now, created, input, runtime_status, created_time, last_updated_time,
    history, output, replayed, response, starter, worker>>

\* ------------------------------------------------------- the history's views

IsResult(ev) == ev.type \in {"TaskCompleted", "TaskFailed"}

IsScheduled(ev) == ev.type = "TaskScheduled"

\* The recorded activity outcomes, in the order they were recorded.
Results(h) == SelectSeq(h, IsResult)

\* The activities the orchestrator has dispatched, in order.
Scheduled(h) == SelectSeq(h, IsScheduled)

\* context.current_utc_datetime before the first yield.
StartTs(h) == h[1].ts

\* ------------------------------------------------- orchestrator_function

\* orchestration_result["steps"][name] = record: steps is a dict, kept in
\* insertion order; assigning an existing key replaces its value in place.
StepsSet(steps, name, rec) ==
  LET entry == [name |-> name] @@ rec
  IN IF \E j \in 1..Len(steps) : steps[j].name = name
       THEN [j \in 1..Len(steps) |->
               IF steps[j].name = name THEN entry ELSE steps[j]]
       ELSE Append(steps, entry)

\* A start_time read from the wall clock at each execution.
InitialResult_WallClock(video_info, start) ==
  [video_info |-> video_info,
   start_time |-> isoformat(now),
   status     |-> "processing",
   steps      |-> <<>>,
   errors     |-> <<>>]

\* The dict the orchestrator starts from (lines 26-32).
InitialResult(video_info, start) ==
  [video_info |-> video_info,
   start_time |-> isoformat(start),
   status     |-> "processing",
   steps      |-> <<>>,
   errors     |-> <<>>]

\* The embeddings call given the metadata as analysis and the analysis as
\* metadata.
ActivityInput_Swapped(k, video_info, outs) ==
  CASE k = 1 -> video_info
    [] k = 2 -> [video_info |-> video_info, metadata |-> outs[1]]
    [] k = 3 -> [video_info |-> video_info, analysis |-> outs[1],
                 metadata |-> outs[2]]
    [] k = 4 -> [video_info |-> video_info, metadata |-> outs[1],
                 analysis |-> outs[2], embeddings |-> outs[3]]
    [] k = 5 -> [video_info |-> video_info, metadata |-> outs[1],
                 analysis |-> outs[2],
                 search_document_id |-> Get(outs[4], "document_id")]

\* The payload of the k-th call_activity, from the input and the results
\* received so far (outs[1] is metadata_result, outs[2] analysis_result,
\* outs[3] embeddings_result, outs[4] search_result).
ActivityInput(k, video_info, outs) ==
  CASE k = 1 -> video_info
    [] k = 2 -> [video_info |-> video_info, metadata |-> outs[1]]
    [] k = 3 -> [video_info |-> video_info, analysis |-> outs[2],
                 metadata |-> outs[1]]
    [] k = 4 -> [video_info |-> video_info, metadata |-> outs[1],
                 analysis |-> outs[2], embeddings |-> outs[3]]
    [] k = 5 -> [video_info |-> video_info, metadata |-> outs[1],
                 analysis |-> outs[2],
                 search_document_id |-> Get(outs[4], "document_id")]

\* The embeddings block writing under the key of the analysis block.
RecordStep_CopyPaste(r, k, result, cur) ==
  [r EXCEPT !.steps =
     StepsSet(@, StepName[IF k = 3 THEN 2 ELSE k],
              [status |-> "completed", result |-> result,
               timestamp |-> isoformat(cur)])]

\* A record written before its result is there.
RecordStep_NoResult(r, k, result, cur) ==
  [r EXCEPT !.steps =
     StepsSet(@, StepName[k],
              [status |-> "completed", timestamp |-> isoformat(cur)])]

\* The record written after the k-th activity returned (lines 41-45 and
\* their four repetitions).
RecordStep(r, k, result, cur) ==
  [r EXCEPT !.steps =
     StepsSet(@, StepName[k],
              [status |-> "completed", result |-> result,
               timestamp |-> isoformat(cur)])]

\* The duration's computation raising into the except branch.
MarkCompleted_Raises(r, cur) ==
  [end_time |-> isoformat(cur)]
  @@ [r EXCEPT !.errors = Append(@, [error |-> "Invalid isoformat string",
                                     timestamp |-> isoformat(cur),
                                     step |-> "orchestration"]),
               !.status = "failed"]

\* The duration taken from the end to the start.
MarkCompleted_Reversed(r, cur) ==
  LET end_time == isoformat(cur)
  IN [processing_duration_seconds |->
        fromisoformat(r.start_time) - fromisoformat(end_time),
      end_time |-> end_time]
     @@ [r EXCEPT !.status = "completed"]

\* Lines 112-119: all five activities returned.
MarkCompleted(r, cur) ==
  LET end_time == isoformat(cur)
  IN [processing_duration_seconds |->
        fromisoformat(end_time) - fromisoformat(r.start_time),
      end_time |-> end_time]
     @@ [r EXCEPT !.status = "completed"]

\* The except branch leaving the status as it was.
HandleException_KeepsProcessing(r, message, cur) ==
  [end_time |-> isoformat(cur)]
  @@ [r EXCEPT !.errors = Append(@, [error |-> message,
                                     timestamp |-> isoformat(cur),
                                     step |-> "orchestration"])]

\* The except branch recording no error.
HandleException_NoRecord(r, message, cur) ==
  [end_time |-> isoformat(cur)] @@ [r EXCEPT !.status = "failed"]

\* Lines 123-132: the except branch, entered with the exception a failed
\* activity raises at its yield.
HandleException(r, message, cur) ==
  [end_time |-> isoformat(cur)]
  @@ [r EXCEPT !.errors = Append(@, [error |-> message,
                                     timestamp |-> isoformat(cur),
                                     step |-> "orchestration"]),
               !.status = "failed"]

\* The generator from its k-th yield on: results are the recorded activity
\* outcomes, cur is context.current_utc_datetime.  It either returns
\* (done) or is suspended at a call_activity whose result is not recorded;
\* value is orchestration_result as it stands there.
RECURSIVE RunFrom(_, _, _, _, _)
RunFrom(k, r, outs, results, cur) ==
  IF k > NumStages
    THEN [done |-> TRUE, value |-> MarkCompleted(r, cur)]
  ELSE IF k > Len(results)
    THEN [done |-> FALSE, value |-> r, stage |-> k,
          call |-> [type  |-> "TaskScheduled",
                    name  |-> ActivityName[k],
                    input |-> ActivityInput(k, r.video_info, outs)]]
  ELSE IF results[k].type = "TaskFailed"
    THEN [done |-> TRUE,
          value |-> HandleException(r, results[k].error, results[k].ts)]
  ELSE RunFrom(k + 1,
               RecordStep(r, k, results[k].result, results[k].ts),
               Append(outs, results[k].result),
               results, results[k].ts)

\* One execution of orchestrator_function over the history h.
orchestrator_function(video_info, h) ==
  RunFrom(1, InitialResult(video_info, StartTs(h)), <<>>, Results(h),
          StartTs(h))

\* ------------------------------------------------- VideoProcessingStatus

\* Query parameters of a status request.
VideoNames == {"demo.mp4"}

\* The status requests made: by instance id with and without the history,
\* by instance id and video name at once, by video name, and the list.
StatusRequests ==
  {q \in [instance_id : InstanceIds \cup {None},
          video_name : VideoNames \cup {None},
          include_history : BOOLEAN] :
     q.include_history => (q.instance_id # None /\ q.video_name = None)}

\* What client.get_status can do for an identifier no instance has (the
\* client is the framework's): return None, return a status whose
\* attributes are all None, or raise.
UnknownOutcomes == {"none", "empty", "raises"}

\* A created_time or last_updated_time of None.
NoTime == -1

\* client.get_status returned None.
NoStatus == EmptyDict

\* client.get_status raised.
ClientRaised == [exception |-> <<"get_status failed">>]

\* client.get_status(instance_id, show_history=..., show_history_output=...).
ClientGetStatus(i, show_history, unknown) ==
  IF i \in created
    THEN [runtime_status    |-> runtime_status[i],
          input_            |-> input[i],
          output            |-> output[i],
          created_time      |-> created_time[i],
          last_updated_time |-> last_updated_time[i],
          custom_status     |-> None,
          history_events    |-> IF show_history THEN history[i] ELSE <<>>]
  ELSE IF unknown = "none" THEN NoStatus
  ELSE IF unknown = "empty"
    THEN [runtime_status    |-> None,
          input_            |-> EmptyDict,
          output            |-> EmptyDict,
          created_time      |-> NoTime,
          last_updated_time |-> NoTime,
          custom_status     |-> None,
          history_events    |-> <<>>]
  ELSE ClientRaised

\* Lines 87-98: the video named by the instance's input.
StatusVideoInfo(input_) ==
  IF input_ = EmptyDict
    THEN EmptyDict
    ELSE [video_name     |-> IF "blob_name" \in DOMAIN input_
                               THEN input_.blob_name ELSE "Unknown",
          container_name |-> IF "container_name" \in DOMAIN input_
                               THEN input_.container_name ELSE "Unknown",
          blob_url       |-> IF "blob_url" \in DOMAIN input_
                               THEN input_.blob_url ELSE ""]

\* Lines 100-106: the output, {} when there is none.
StatusOutput(out) == IF out = EmptyDict THEN EmptyDict ELSE out

\* Lines 108-112: f"{duration_seconds:.1f} seconds", None without both times.
ProcessingDuration(status) ==
  IF status.created_time # NoTime /\ status.last_updated_time # NoTime
    THEN <<status.last_updated_time - status.created_time, "seconds">>
    ELSE NoneStr

\* The history reported latest event first.
ExecutionHistory_Reversed(events) ==
  [j \in 1..Len(events) |->
     [event_type |-> events[Len(events) + 1 - j].type,
      timestamp |-> isoformat(events[Len(events) + 1 - j].ts)]]

\* Lines 126-134.
ExecutionHistory(events) ==
  [j \in 1..Len(events) |->
     [event_type |-> events[j].type, timestamp |-> isoformat(events[j].ts)]]

\* A function's normal return.
Returned(value) == [raised |-> None, value |-> value]

\* get_orchestration_status (lines 64-146) on what client.get_status did.
get_orchestration_status(status, instance_id, include_history) ==
  LET result ==
        [instance_id         |-> instance_id,
         runtime_status      |-> IF status.runtime_status # None
                                   THEN status.runtime_status ELSE "Unknown",
         created_time        |-> IF status.created_time # NoTime
                                   THEN isoformat(status.created_time)
                                   ELSE NoneStr,
         last_updated_time   |-> IF status.last_updated_time # NoTime
                                   THEN isoformat(status.last_updated_time)
                                   ELSE NoneStr,
         processing_duration |-> ProcessingDuration(status),
         video_info          |-> StatusVideoInfo(status.input_),
         output              |-> StatusOutput(status.output),
         custom_status       |-> status.custom_status,
         management_urls     |->
           [status_query |-> <<"/api/VideoProcessingStatus/", instance_id>>,
            status_with_history |->
              <<"/api/VideoProcessingStatus/", instance_id,
                "?include_history=true">>]]
  IN IF status = ClientRaised
       THEN [raised |-> "Exception", message |-> status.exception]
     ELSE IF status = NoStatus
       THEN [raised |-> "ValueError",
             message |-> <<"Orchestration instance", instance_id,
                           "not found">>]
     ELSE IF include_history /\ status.history_events # <<>>
       THEN Returned([execution_history |->
                        ExecutionHistory(status.history_events)] @@ result)
     ELSE Returned(result)

\* A search by name that answers with the first instance's identifier.
find_orchestration_by_video_name_Guess(video_name) ==
  [instance_id |-> "i1", runtime_status |-> "Unknown",
   message |-> <<"Search by video name", video_name>>]

\* find_orchestration_by_video_name (lines 149-179).
find_orchestration_by_video_name(video_name) ==
  [message |-> <<"Search by video name not yet implemented", video_name>>,
   suggestion |->
     "Use the instance ID returned when the video processing started",
   alternative |->
     "Use the list endpoint to see all recent orchestrations"]

\* list_recent_orchestrations (lines 182-204).
list_recent_orchestrations ==
  [message |-> "Listing recent orchestrations not yet fully implemented",
   note |-> "This feature requires additional configuration",
   recommendation |-> "Store instance IDs when starting orchestrations"]

\* A main whose first handler catches every exception.
StatusMain_OneHandler(instance_id, video_name, include_history, unknown) ==
  LET status_result ==
        IF instance_id # None
          THEN get_orchestration_status(
                 ClientGetStatus(instance_id, include_history, unknown),
                 instance_id, include_history)
        ELSE IF video_name # None
          THEN Returned(find_orchestration_by_video_name(video_name))
        ELSE Returned(list_recent_orchestrations)
      request == [instance_id |-> instance_id, video_name |-> video_name,
                  include_history |-> include_history]
  IN IF status_result.raised = None
       THEN [request |-> request, status_code |-> 200,
             body |-> status_result.value]
     ELSE [request |-> request, status_code |-> 400,
           body |-> [error |-> "Bad Request",
                     message |-> status_result.message]]

\* main (lines 8-61): the route taken and the response returned to the
\* request.
StatusMain(instance_id, video_name, include_history, unknown) ==
  LET status_result ==
        IF instance_id # None
          THEN get_orchestration_status(
                 ClientGetStatus(instance_id, include_history, unknown),
                 instance_id, include_history)
        ELSE IF video_name # None
          THEN Returned(find_orchestration_by_video_name(video_name))
        ELSE Returned(list_recent_orchestrations)
      request == [instance_id |-> instance_id, video_name |-> video_name,
                  include_history |-> include_history]
  IN IF status_result.raised = None
       THEN [request |-> request, status_code |-> 200,
             body |-> status_result.value]
     ELSE IF status_result.raised = "ValueError"
       THEN [request |-> request, status_code |-> 400,
             body |-> [error |-> "Bad Request",
                       message |-> status_result.message]]
     ELSE [request |-> request, status_code |-> 500,
           body |-> [error |-> "Internal Server Error",
                     message |-> status_result.message]]

\* ------------------------------- the worker: shared.clients and activities

\* The three clients of shared.clients, and the setting each one reads its
\* endpoint from.
Clients == {"ai", "openai", "search"}

EndpointVar ==
  [ai |-> "AZURE_AI_SERVICE_ENDPOINT", openai |-> "AZURE_OPENAI_ENDPOINT",
   search |-> "AZURE_SEARCH_ENDPOINT"]

\* The setting ExtractVideoMetadata reads.  A setting is in the environment
\* when it holds a usable value: for this one, a connection string other
\* than "UseDevelopmentStorage=true".
StorageVar == "AzureWebJobsStorage"

EnvVars == {StorageVar} \cup {EndpointVar[c] : c \in Clients}

\* The module-level instance before the first construction: None.
NoClient == 0

\* No activity has run in the process.
NoInvocation == [activity |-> 0]

\* The process as it starts with environment env.  instance[c] is the
\* module-level variable of client c; constructed[c] counts the objects its
\* class constructed, returned[c] collects the objects its getter returned
\* and failed[c] tells that a construction raised; last is the activity
\* run that ended last.
NewWorker(env) ==
  [env |-> env,
   instance |-> [c \in Clients |-> NoClient],
   constructed |-> [c \in Clients |-> 0],
   returned |-> [c \in Clients |-> {}],
   failed |-> [c \in Clients |-> FALSE],
   last |-> NoInvocation]

\* Every service configured.
ConfiguredWorker == NewWorker(EnvVars)

\* The constructor of client c: _setup_client raises ValueError without
\* the endpoint, and hands on what the SDK raises.  ContentUnderstandingClient
\* sets up its credential before it looks at the endpoint.
Construct(w, c, sdk_ok) ==
  IF c = "ai" /\ ~sdk_ok
    THEN [raised |-> "Exception", message |-> <<"client setup failed">>]
    ELSE IF EndpointVar[c] \notin w.env
      THEN [raised |-> "ValueError",
            message |-> <<EndpointVar[c], "not configured">>]
      ELSE IF ~sdk_ok
        THEN [raised |-> "Exception", message |-> <<"client setup failed">>]
        ELSE [raised |-> None, message |-> <<>>]

\* A getter that returns a new object without keeping it.
get_client_NoStore(w, c, sdk_ok) ==
  LET made == Construct(w, c, sdk_ok)
      obj  == w.constructed[c] + 1
  IN  IF made.raised # None
        THEN [raised |-> made.raised, message |-> made.message,
              object |-> NoClient, how |-> "raised",
              worker |-> [w EXCEPT !.failed[c] = TRUE]]
        ELSE [raised |-> None, message |-> <<>>, object |-> obj,
              how |-> "constructed",
              worker |-> [w EXCEPT !.constructed[c] = obj,
                                   !.returned[c] = @ \cup {obj}]]

\* get_content_understanding_client, get_openai_client, get_search_client:
\* construct on the first call, return the stored instance afterwards.  The
\* assignment happens only when the constructor returned.
get_client(w, c, sdk_ok) ==
  IF w.instance[c] = NoClient
    THEN LET made == Construct(w, c, sdk_ok)
             obj  == w.constructed[c] + 1
         IN  IF made.raised # None
               THEN [raised |-> made.raised, message |-> made.message,
                     object |-> NoClient, how |-> "raised",
                     worker |-> [w EXCEPT !.failed[c] = TRUE]]
               ELSE [raised |-> None, message |-> <<>>, object |-> obj,
                     how |-> "constructed",
                     worker |-> [w EXCEPT !.instance[c] = obj,
                                          !.constructed[c] = obj,
                                          !.returned[c] = @ \cup {obj}]]
    ELSE [raised |-> None, message |-> <<>>, object |-> w.instance[c],
          how |-> "cached",
          worker |-> [w EXCEPT !.returned[c] = @ \cup {w.instance[c]}]]

get_content_understanding_client(w, sdk_ok) == get_client(w, "ai", sdk_ok)

get_openai_client(w, sdk_ok) == get_client(w, "openai", sdk_ok)

get_search_client(w, sdk_ok) == get_client(w, "search", sdk_ok)

\* How an activity run ends.  mode tells the return statement it took
\* ("simulated" or "real") and getter how its call of a getter went.
ActivityReturned(w, mode, value, getter) ==
  [raised |-> None, message |-> <<>>, mode |-> mode, value |-> value,
   getter |-> getter, worker |-> w]

\* The except clause of every activity: raise Exception("<stage> failed:
\* <cause>").
ActivityRaised(w, k, cause, getter) ==
  [raised |-> "Exception", message |-> <<ErrorMessage[k]>> \o cause,
   mode |-> "raised", value |-> EmptyDict, getter |-> getter, worker |-> w]

\* What the service called by an activity does: the call returns, it
\* raises, or (the search index) it returns a result whose succeeded is
\* false.
ServiceOutcomes == {"ok", "error", "rejected"}

\* AzureSearchClient.upload_documents on a batch of one document: the
\* per-document results are counted and the counts returned.
upload_documents(service) ==
  CASE service = "error" ->
         [raised |-> "Exception", message |-> <<"upload failed">>]
    [] service = "rejected" ->
         Returned([successful_count |-> 0, failed_count |-> 1,
                   status |-> "completed"])
    [] OTHER ->
         Returned([successful_count |-> 1, failed_count |-> 0,
                   status |-> "completed"])

upload_document(service) == upload_documents(service)

\* prepare_search_document's and simulate_search_storage's document id:
\* the blob name and the time of the call.
DocumentId(video_info, t) == <<"video", Get(video_info, "blob_name"), t>>

\* ExtractVideoMetadata.main.
ExtractVideoMetadata(video_info, w, service, t) ==
  IF StorageVar \notin w.env
    THEN ActivityReturned(w, "simulated",
           [file_info |->
              [blob_name |-> Get(video_info, "blob_name"),
               container_name |-> Get(video_info, "container_name")]],
           "not called")
    ELSE IF service = "ok"
      THEN ActivityReturned(w, "real",
             [file_info |->
                [blob_name |-> Get(video_info, "blob_name"),
                 container_name |-> Get(video_info, "container_name")]],
             "not called")
      ELSE ActivityRaised(w, 1, <<"blob properties">>, "not called")

\* AnalyzeVideoContent.main.  The getter is called before the endpoint is
\* looked at; analyze_video is called with keywords it does not have
\* (include_transcript, include_insights), which raises TypeError.
AnalyzeVideoContent(input_data, w, sdk_ok, service, t) ==
  LET got == get_content_understanding_client(w, sdk_ok)
  IN  IF got.raised # None
        THEN ActivityRaised(got.worker, 2, got.message, got.how)
        ELSE IF EndpointVar["ai"] \notin w.env
          THEN ActivityReturned(got.worker, "simulated",
                 [analysis_id |-> <<"analysis", t>>], got.how)
          ELSE ActivityRaised(got.worker, 2, <<"TypeError">>, got.how)

\* GenerateEmbeddings.main.  generate_embeddings is not a coroutine
\* function: awaiting what it returns raises TypeError.
GenerateEmbeddings(input_data, w, sdk_ok, service, t) ==
  LET got == get_openai_client(w, sdk_ok)
  IN  IF got.raised # None
        THEN ActivityRaised(got.worker, 3, got.message, got.how)
        ELSE IF EndpointVar["openai"] \notin w.env
          THEN ActivityReturned(got.worker, "simulated",
                 [embeddings |-> "mock"], got.how)
          ELSE ActivityRaised(got.worker, 3,
                 IF service = "ok" THEN <<"TypeError">>
                                   ELSE <<"embeddings call">>, got.how)

\* StoreInAzureSearch.main.
StoreInAzureSearch(input_data, w, sdk_ok, service, t) ==
  LET got == get_search_client(w, sdk_ok)
      storage_result == upload_document(service)
  IN  IF got.raised # None
        THEN ActivityRaised(got.worker, 4, got.message, got.how)
        ELSE IF EndpointVar["search"] \notin w.env
          THEN ActivityReturned(got.worker, "simulated",
                 [document_id |-> DocumentId(input_data.video_info, t),
                  status |-> "succeeded"], got.how)
          ELSE IF storage_result.raised # None
            THEN ActivityRaised(got.worker, 4, storage_result.message,
                                got.how)
            ELSE ActivityReturned(got.worker, "real",
                   [document_id |-> DocumentId(input_data.video_info, t),
                    status |-> "success",
                    upload_result |-> storage_result.value], got.how)

\* GenerateVideoInsights.main.  generate_video_insights is not a coroutine
\* function: awaiting what it returns raises TypeError.
GenerateVideoInsights(input_data, w, sdk_ok, service, t) ==
  LET got == get_openai_client(w, sdk_ok)
  IN  IF got.raised # None
        THEN ActivityRaised(got.worker, 5, got.message, got.how)
        ELSE IF EndpointVar["openai"] \notin w.env
          THEN ActivityReturned(got.worker, "simulated",
                 [insights |-> "mock", status |-> "completed"], got.how)
          ELSE ActivityRaised(got.worker, 5,
                 IF service = "ok" THEN <<"TypeError">>
                                   ELSE <<"insights call">>, got.how)

\* The activity function registered under ActivityName[k].
RunActivity(k, payload, w, sdk_ok, service, t) ==
  CASE k = 1 -> ExtractVideoMetadata(payload, w, service, t)
    [] k = 2 -> AnalyzeVideoContent(payload, w, sdk_ok, service, t)
    [] k = 3 -> GenerateEmbeddings(payload, w, sdk_ok, service, t)
    [] k = 4 -> StoreInAzureSearch(payload, w, sdk_ok, service, t)
    [] k = 5 -> GenerateVideoInsights(payload, w, sdk_ok, service, t)

\* The client an activity asks for.
ClientOf(k) ==
  CASE k = 2 -> "ai" [] k = 3 -> "openai" [] k = 4 -> "search"
    [] k = 5 -> "openai" [] OTHER -> None

\* ---------------------------------------------------------------- actions

\* No request was served by the last step.
NoResponse == [status_code |-> 0]

\* The starter did not run in the last step.
NoRun == [result |-> "none"]

Init ==
  /\ now = 0
  /\ created = {}
  /\ input = [i \in InstanceIds |-> EmptyDict]
  /\ runtime_status = [i \in InstanceIds |-> None]
  /\ created_time = [i \in InstanceIds |-> 0]
  /\ last_updated_time = [i \in InstanceIds |-> 0]
  /\ history = [i \in InstanceIds |-> <<>>]
  /\ output = [i \in InstanceIds |-> EmptyDict]
  /\ replayed = [i \in InstanceIds |-> FALSE]
  /\ response = NoResponse
  /\ starter = NoRun
  /\ worker = ConfiguredWorker

\* Time passes.
Tick ==
  /\ now < MaxTime
  /\ now' = now + 1
  /\ UNCHANGED worker
  /\ response' = NoResponse
  /\ starter' = NoRun
  /\ UNCHANGED <<created, input, runtime_status, created_time,
                 last_updated_time, history, output, replayed>>

\* A start_new that creates the instance without its input.
StartNew_NoInput(i, video_info) ==
  /\ i \notin created
  /\ created' = created \cup {i}
  /\ input' = input
  /\ runtime_status' = [runtime_status EXCEPT ![i] = "Pending"]
  /\ created_time' = [created_time EXCEPT ![i] = now]
  /\ last_updated_time' = [last_updated_time EXCEPT ![i] = now]
  /\ UNCHANGED <<now, history, output, replayed>>

\* client.start_new("VideoProcessingOrchestrator", client_input=video_info)
\* in the starter: a new instance under an identifier not used before.
StartNew(i, video_info) ==
  /\ i \notin created
  /\ created' = created \cup {i}
  /\ input' = [input EXCEPT ![i] = video_info]
  /\ runtime_status' = [runtime_status EXCEPT ![i] = "Pending"]
  /\ created_time' = [created_time EXCEPT ![i] = now]
  /\ last_updated_time' = [last_updated_time EXCEPT ![i] = now]
  /\ UNCHANGED <<now, history, output, replayed>>

\* An except clause that logs the error and returns.
StarterExcept_Swallows == "returned"

\* Lines 48-50: the error is logged and raised again.
StarterExcept == "raised"

\* The starter's main (lines 7-50) on one event, i being the identifier
\* start_new would generate: start_new either creates the instance or raises.
\* The starter runs while the pool of identifiers has a fresh one.
StarterMain(event_data, i, start_ok) ==
  LET video_info == VideoInfoOf[event_data]
      ran == [event |-> event_data, video_info |-> video_info]
  IN /\ i \notin created
     /\ UNCHANGED worker
     /\ response' = NoResponse
     /\ IF ~ is_video_file(video_info.content_type, video_info.blob_name)
          THEN /\ starter' = ran @@ [result |-> "returned",
                                     start_new |-> "not called",
                                     instance_id |-> None]
               /\ UNCHANGED <<now, created, input, runtime_status,
                              created_time, last_updated_time, history,
                              output, replayed>>
        ELSE IF start_ok
          THEN /\ StartNew(i, video_info)
               /\ starter' = ran @@ [result |-> "returned",
                                     start_new |-> "returned",
                                     instance_id |-> i]
        ELSE /\ starter' = ran @@ [result |-> StarterExcept,
                                   start_new |-> "raised",
                                   instance_id |-> None]
             /\ UNCHANGED <<now, created, input, runtime_status,
                            created_time, last_updated_time, history,
                            output, replayed>>

\* An episode that starts from an empty history whatever was recorded.
EpisodeHistory_Forgets(i) ==
  <<[type |-> "ExecutionStarted", ts |-> now]>>

\* The history an episode runs over: the first episode records its start.
EpisodeHistory(i) ==
  IF history[i] = <<>>
    THEN <<[type |-> "ExecutionStarted", ts |-> now]>>
    ELSE history[i]

\* Scheduling the task whether or not the history shows it scheduled.
Dispatch_Always(h, run) == Append(h, [ts |-> now] @@ run.call)

\* A call_activity that never puts its task on the queue.
Dispatch_Never(h, run) == h

\* call_activity at a yield with no recorded result: the task is scheduled
\* unless the history shows it was scheduled already.
Dispatch(h, run) ==
  IF run.stage > Len(Scheduled(h))
    THEN Append(h, [ts |-> now] @@ run.call)
    ELSE h

\* One episode of the orchestrator (main = df.Orchestrator.create(...)):
\* orchestrator_function runs from its first line over the history.
OrchestratorExecute(i) ==
  /\ i \in created
  /\ runtime_status[i] \in {"Pending", "Running"}
  /\ LET h == EpisodeHistory(i)
         run == orchestrator_function(input[i], h)
     IN IF run.done
          THEN /\ history' = [history EXCEPT ![i] = h]
               /\ output' = [output EXCEPT ![i] = run.value]
               /\ runtime_status' = [runtime_status EXCEPT ![i] = "Completed"]
          ELSE /\ history' = [history EXCEPT ![i] = Dispatch(h, run)]
               /\ output' = output
               /\ runtime_status' = [runtime_status EXCEPT ![i] = "Running"]
  /\ replayed' = [replayed EXCEPT ![i] =
       @ \/ (history'[i] = history[i]
             /\ runtime_status'[i] = runtime_status[i])]
  /\ last_updated_time' = [last_updated_time EXCEPT ![i] = now]
  /\ UNCHANGED worker
  /\ response' = NoResponse
  /\ starter' = NoRun
  /\ UNCHANGED <<now, created, input, created_time>>

\* The stage in flight: scheduled, its outcome not yet recorded (0: none).
InFlight(i) ==
  IF Len(Scheduled(history[i])) > Len(Results(history[i]))
    THEN Len(Scheduled(history[i]))
    ELSE 0

\* The activity in flight returns result.
ActivityComplete(i, result) ==
  /\ i \in created
  /\ runtime_status[i] = "Running"
  /\ InFlight(i) # 0
  /\ result \in ActivityResults(InFlight(i))
  /\ history' = [history EXCEPT ![i] =
       Append(@, [type |-> "TaskCompleted", result |-> result, ts |-> now])]
  /\ last_updated_time' = [last_updated_time EXCEPT ![i] = now]
  /\ UNCHANGED worker
  /\ response' = NoResponse
  /\ starter' = NoRun
  /\ UNCHANGED <<now, created, input, runtime_status, created_time, output,
                 replayed>>

\* A failure that reaches every instance with an activity in flight.
ActivityFail_All(i) ==
  /\ i \in created
  /\ runtime_status[i] = "Running"
  /\ InFlight(i) # 0
  /\ history' =
       [j \in DOMAIN history |->
          IF j \in created /\ runtime_status[j] = "Running" /\ InFlight(j) # 0
            THEN Append(history[j],
                        [type |-> "TaskFailed",
                         error |-> ErrorMessage[InFlight(j)], ts |-> now])
            ELSE history[j]]
  /\ last_updated_time' = [last_updated_time EXCEPT ![i] = now]
  /\ UNCHANGED worker
  /\ response' = NoResponse
  /\ starter' = NoRun
  /\ UNCHANGED <<now, created, input, runtime_status, created_time, output,
                 replayed>>

\* The activity in flight raises.
ActivityFail(i) ==
  /\ i \in created
  /\ runtime_status[i] = "Running"
  /\ InFlight(i) # 0
  /\ history' = [history EXCEPT ![i] =
       Append(@, [type |-> "TaskFailed", error |-> ErrorMessage[InFlight(i)],
                  ts |-> now])]
  /\ last_updated_time' = [last_updated_time EXCEPT ![i] = now]
  /\ UNCHANGED worker
  /\ response' = NoResponse
  /\ starter' = NoRun
  /\ UNCHANGED <<now, created, input, runtime_status, created_time, output,
                 replayed>>

\* A status request that stamps the instance it reads.
StatusQuery_Touches(instance_id, video_name, include_history, unknown) ==
  /\ UNCHANGED worker
  /\ response' = StatusMain(instance_id, video_name, include_history, unknown)
  /\ starter' = NoRun
  /\ last_updated_time' =
       [i \in DOMAIN last_updated_time |->
          IF i = instance_id THEN now ELSE last_updated_time[i]]
  /\ UNCHANGED <<now, created, input, runtime_status, created_time,
                 history, output, replayed>>

\* GET /api/VideoProcessingStatus/{instanceId}?video_name=..&include_history=..
StatusQuery(instance_id, video_name, include_history, unknown) ==
  /\ UNCHANGED worker
  /\ response' = StatusMain(instance_id, video_name, include_history, unknown)
  /\ starter' = NoRun
  /\ UNCHANGED <<now, created, input, runtime_status, created_time,
                 last_updated_time, history, output, replayed>>

Next ==
  \/ Tick
  \/ \E e \in Events, i \in InstanceIds, ok \in BOOLEAN : StarterMain(e, i, ok)
  \/ \E i \in InstanceIds : OrchestratorExecute(i)
  \/ \E i \in InstanceIds, r \in AllResults : ActivityComplete(i, r)
  \/ \E i \in InstanceIds : ActivityFail(i)
  \/ \E q \in StatusRequests, u \in UnknownOutcomes :
       /\ u # "none" => (q.instance_id # None /\ q.instance_id \notin created)
       /\ StatusQuery(q.instance_id, q.video_name, q.include_history, u)

Spec == Init /\ [][Next]_vars

\* ------------------------------------------------- the pipeline, scheduled

\* The activity in flight for instance i returns or raises.
ActivityOutcome(i) ==
  \/ \E r \in AllResults : ActivityComplete(i, r)
  \/ ActivityFail(i)

\* The pipeline without the status endpoint.
NextPipeline ==
  \/ Tick
  \/ \E e \in Events, i \in InstanceIds, ok \in BOOLEAN : StarterMain(e, i, ok)
  \/ \E i \in InstanceIds : OrchestratorExecute(i)
  \/ \E i \in InstanceIds : ActivityOutcome(i)

\* The framework executes the orchestrator of an instance that has something
\* to do (a start or an outcome not yet processed), and every dispatched
\* activity returns or raises in the end.
SpecFair ==
  /\ Init
  /\ [][NextPipeline]_vars
  /\ \A i \in InstanceIds :
       /\ WF_vars(OrchestratorExecute(i))
       /\ WF_vars(ActivityOutcome(i))

\* ------------------------------------------------ the starter on its own

\* Uploads of every kind, while the instance created begins to run.
NextStarter ==
  \/ \E e \in WideEvents, i \in InstanceIds, ok \in BOOLEAN :
       StarterMain(e, i, ok)
  \/ \E i \in InstanceIds : OrchestratorExecute(i)

SpecStarter == Init /\ [][NextStarter]_vars

\* ------------------------------------------------ the worker on its own

\* The results of the stages before, as the orchestrator passes them on.
PriorResults ==
  <<[file_info |-> "f1"], [analysis_id |-> "a1"], [embeddings |-> "e1"],
    [document_id |-> "d1", status |-> "success"]>>

\* The payloads the orchestrator sends to the k-th activity: the starter
\* starts an orchestration for a video only.
ActivityPayloadsOf ==
  [k \in 1..NumStages |->
     {ActivityInput(k, VideoInfoOf[e], PriorResults) :
        e \in {v \in Events : is_video_file(VideoInfoOf[v].content_type,
                                           VideoInfoOf[v].blob_name)}}]

ActivityPayloads(k) == ActivityPayloadsOf[k]

\* The host runs the activity function of stage k in the worker.  The
\* activities are coroutines on the worker's one event loop and a getter
\* has no await in it, so a getter's check and assignment are one step.
ActivityInvoke(k, payload, sdk_ok, service) ==
  /\ payload \in ActivityPayloads(k)
  /\ LET out == RunActivity(k, payload, worker, sdk_ok, service, now)
     IN  worker' = [out.worker EXCEPT !.last =
           [activity |-> k, service |-> service, raised |-> out.raised,
            message |-> out.message, mode |-> out.mode,
            value |-> out.value, getter |-> out.getter]]
  /\ response' = NoResponse
  /\ starter' = NoRun
  /\ UNCHANGED <<now, created, input, runtime_status, created_time,
                 last_updated_time, history, output, replayed>>

\* The process starts in any environment.
InitWorker ==
  /\ now = 0
  /\ created = {}
  /\ input = [i \in InstanceIds |-> EmptyDict]
  /\ runtime_status = [i \in InstanceIds |-> None]
  /\ created_time = [i \in InstanceIds |-> 0]
  /\ last_updated_time = [i \in InstanceIds |-> 0]
  /\ history = [i \in InstanceIds |-> <<>>]
  /\ output = [i \in InstanceIds |-> EmptyDict]
  /\ replayed = [i \in InstanceIds |-> FALSE]
  /\ response = NoResponse
  /\ starter = NoRun
  /\ worker \in {NewWorker(env) : env \in SUBSET EnvVars}

NextWorker ==
  \/ \E k \in 1..NumStages, sdk_ok \in BOOLEAN, service \in ServiceOutcomes :
       \E payload \in ActivityPayloads(k) :
         ActivityInvoke(k, payload, sdk_ok, service)

SpecWorker == InitWorker /\ [][NextWorker]_vars

\* ------------------------------------------------------- two instances

\* Two identifiers, so that an upload can meet an instance that exists.
TwoIds == {"i1", "i2"}

\* What the activities return when two instances run side by side.
TwoResults ==
  { [file_info |-> "f1"], [analysis_id |-> "a1"], [embeddings |-> "e1"],
    [document_id |-> "d1", status |-> "success"],
    [insights |-> "s1", status |-> "completed"] }

InitTwo ==
  /\ now = 0
  /\ created = {}
  /\ input = [i \in TwoIds |-> EmptyDict]
  /\ runtime_status = [i \in TwoIds |-> None]
  /\ created_time = [i \in TwoIds |-> 0]
  /\ last_updated_time = [i \in TwoIds |-> 0]
  /\ history = [i \in TwoIds |-> <<>>]
  /\ output = [i \in TwoIds |-> EmptyDict]
  /\ replayed = [i \in TwoIds |-> FALSE]
  /\ response = NoResponse
  /\ starter = NoRun
  /\ worker = ConfiguredWorker

\* The pipeline with two identifiers and the clock at rest.
NextTwo ==
  \/ \E e \in Events, i \in TwoIds, ok \in BOOLEAN : StarterMain(e, i, ok)
  \/ \E i \in TwoIds : OrchestratorExecute(i)
  \/ \E i \in TwoIds, r \in TwoResults : ActivityComplete(i, r)
  \/ \E i \in TwoIds : ActivityFail(i)

SpecTwo == InitTwo /\ [][NextTwo]_vars

\* ------------------------------------------------------ views for the claims

\* The orchestrator has returned for instance i.
Finished(i) == i \in created /\ runtime_status[i] = "Completed"

\* The instance's pipeline status, as the specification names it.
Status(i) ==
  CASE i \notin created -> "none"
    [] i \in created /\ runtime_status[i] = "Pending" -> "pending"
    [] i \in created /\ runtime_status[i] = "Running" -> "running"
    [] OTHER -> output[i].status

StepNames(r) == [j \in 1..Len(r.steps) |-> r.steps[j].name]

ScheduledNames(h) == [j \in 1..Len(Scheduled(h)) |-> Scheduled(h)[j].name]

\* The stage whose invocation failed (0: none did).
FailedStage(i) ==
  LET rs == Results(history[i])
  IN IF rs # <<>> /\ rs[Len(rs)].type = "TaskFailed" THEN Len(rs) ELSE 0

\* The number of recorded outcomes of the given type.
CountResults(i, type) ==
  Cardinality({j \in 1..Len(Results(history[i])) :
                 Results(history[i])[j].type = type})

\* --------------------------------------------------------------------- C1
\* C1: for every k in 1..5, if the invocation of stage k fails, the instance
\* ends with status failed, steps holds exactly the k-1 completed records of
\* stages 1..k-1, errors holds exactly one record, that record names stage k
\* and carries its error message, and stages k+1..5 are never invoked.
C1_FailureShortCircuit ==
  \A i \in created : \A k \in 1..NumStages :
    (Finished(i) /\ FailedStage(i) = k) =>
       /\ output[i].status = "failed"
       /\ StepNames(output[i]) = SubSeq(StepName, 1, k - 1)
       /\ \A j \in 1..Len(output[i].steps) :
            output[i].steps[j].status = "completed"
       /\ Len(output[i].errors) = 1
       /\ output[i].errors[1].step \in {StepName[k], ActivityName[k]}
       /\ output[i].errors[1].error = ErrorMessage[k]
       /\ ScheduledNames(history[i]) = SubSeq(ActivityName, 1, k)

\* C1 but for the name in the error record: what the code does ensure.
C1_ShortCircuitButForTheName ==
  \A i \in created : \A k \in 1..NumStages :
    (Finished(i) /\ FailedStage(i) = k) =>
       /\ output[i].status = "failed"
       /\ StepNames(output[i]) = SubSeq(StepName, 1, k - 1)
       /\ Len(output[i].errors) = 1
       /\ output[i].errors[1].step = "orchestration"
       /\ output[i].errors[1].error = ErrorMessage[k]
       /\ ScheduledNames(history[i]) = SubSeq(ActivityName, 1, k)

\* --------------------------------------------------------------------- C2
\* C2: an instance that reaches completed has recorded exactly the five
\* stages metadata, analysis, embeddings, search_storage, insights, in that
\* order and once each, and its activities were invoked in that same order,
\* none skipped and none repeated.
C2_CompletedHasFiveStagesInOrder ==
  \A i \in created :
    (Finished(i) /\ output[i].status = "completed") =>
       /\ StepNames(output[i]) =
            <<"metadata", "analysis", "embeddings", "search_storage",
              "insights">>
       /\ ScheduledNames(history[i]) =
            <<"ExtractVideoMetadata", "AnalyzeVideoContent",
              "GenerateEmbeddings", "StoreInAzureSearch",
              "GenerateVideoInsights">>

C2_Witness ==
  \E i \in created :
    /\ Finished(i)
    /\ output[i].status = "completed"
    /\ ~ replayed[i]

\* --------------------------------------------------------------------- C3
IsPrefix(s, t) == Len(s) <= Len(t) /\ SubSeq(t, 1, Len(s)) = s

\* C3: an execution of the orchestrator over a history that holds the
\* results of stages 1..k invokes only stages after k and reuses the
\* recorded results; over any number of re-executions no stage is invoked
\* twice, and nothing recorded is ever lost.
C3_ReplayInvokesOnlyUnrecorded ==
  [][\A i \in created :
       LET h  == history[i]
           h2 == history'[i]
       IN /\ IsPrefix(h, h2)
          /\ \A j \in 1..Len(Scheduled(h2)) :
               j > Len(Scheduled(h)) =>
                 /\ j = Len(Results(h)) + 1
                 /\ Scheduled(h2)[j].name = ActivityName[j]
          /\ \A j, k \in 1..Len(Scheduled(h2)) :
               j # k => Scheduled(h2)[j].name # Scheduled(h2)[k].name
          /\ runtime_status'[i] = "Completed" =>
               \A j \in 1..Len(output'[i].steps) :
                 output'[i].steps[j].result = Results(h2)[j].result]_vars

\* The orchestrator was executed over an unchanged history and the pipeline
\* completed.
C3_Witness ==
  \E i \in created :
    /\ Finished(i)
    /\ output[i].status = "completed"
    /\ replayed[i]
    /\ Len(Scheduled(history[i])) = NumStages

\* --------------------------------------------------------------------- C4
AllowedMoves ==
  { <<"none", "none">>, <<"none", "pending">>, <<"pending", "pending">>,
    <<"pending", "running">>, <<"running", "running">>,
    <<"running", "completed">>, <<"running", "failed">>,
    <<"completed", "completed">>, <<"failed", "failed">> }

MissingStages(r) ==
  { k \in 1..NumStages :
      ~ \E j \in 1..Len(r.steps) :
          r.steps[j].name = StepName[k] /\ r.steps[j].status = "completed" }

\* C5 as claimed: if the status is failed, exactly one stage has no
\* completed record and errors is not empty.
C5_FailedMissesExactlyOne ==
  \A i \in created :
    Status(i) = "failed" =>
       /\ Cardinality(MissingStages(output[i])) = 1
       /\ output[i].errors # <<>>

\* C5 as amended: if the status is failed, at least one stage has no
\* completed record (the stage that failed and every stage after it) and
\* errors is not empty.
C5_FailedMissesFromTheFailedStageOn ==
  \A i \in created :
    Status(i) = "failed" =>
       /\ MissingStages(output[i]) # {}
       /\ FailedStage(i) # 0
       /\ MissingStages(output[i]) = FailedStage(i)..NumStages
       /\ output[i].errors # <<>>

\* The first stage failed: five stages have no record.
C5_Witness ==
  \E i \in created :
    Status(i) = "failed" /\ Cardinality(MissingStages(output[i])) = NumStages

\* --------------------------------------------------------------------- C6
\* C6: if the status is completed, each of the five stages has a step record
\* whose status is completed.
C6_CompletedHasAllFive ==
  \A i \in created :
    Status(i) = "completed" =>
      \A name \in {"metadata", "analysis", "embeddings", "search_storage",
                   "insights"} :
        \E j \in 1..Len(output[i].steps) :
          /\ output[i].steps[j].name = name
          /\ output[i].steps[j].status = "completed"

C6_Witness ==
  \E i \in created :
    /\ Status(i) = "completed"
    /\ Len(output[i].steps) = NumStages
    /\ output[i].steps[4].result.document_id = "d2"

\* --------------------------------------------------------------------- C7
\* The response answers a query by instance id.
AnswersFor(i) ==
  /\ response.status_code = 200
  /\ "instance_id" \in DOMAIN response.body
  /\ response.body.instance_id = i

\* C7: a status query on an instance whose pipeline failed returns the
\* status failed and the full errors list, whose record carries the name
\* and the message of the stage that failed; it never reports the instance
\* as completed.
C7_QueryReportsFailure ==
  \A i \in created :
    (AnswersFor(i) /\ Finished(i) /\ FailedStage(i) # 0) =>
       /\ response.body.runtime_status = "Failed"
       /\ response.body.output.status = "failed"
       /\ Len(response.body.output.errors) = 1
       /\ response.body.output.errors[1].step
            \in {StepName[FailedStage(i)], ActivityName[FailedStage(i)]}
       /\ response.body.output.errors[1].error = ErrorMessage[FailedStage(i)]

\* --------------------------------------------------------------------- C8
\* The number of recorded outcomes among the first p events of h.
ResultsBefore(h, p) == Len(Results(SubSeq(h, 1, p)))

\* C8: at most one stage invocation of an instance is in flight, and a
\* stage is dispatched only once the outcome of every stage dispatched
\* before it is recorded, each of them a success.
C8_OneInFlight ==
  \A i \in created :
    LET h == history[i]
    IN /\ Len(Scheduled(h)) - Len(Results(h)) \in {0, 1}
       /\ \A p \in 1..Len(h) :
            h[p].type = "TaskScheduled" =>
              /\ ResultsBefore(h, p) = Len(Scheduled(SubSeq(h, 1, p))) - 1
              /\ \A q \in 1..p :
                   h[q].type # "TaskFailed"

\* The third stage is in flight, the first two have returned.
C8_Witness ==
  \E i \in created :
    InFlight(i) = 3 /\ Len(Results(history[i])) = 2 /\ replayed[i]

\* --------------------------------------------------------------------- C9
\* C9: stage 2 is invoked with the input and the metadata, stage 3 with the
\* input, the analysis and the metadata, stage 4 with the input, the
\* metadata, the analysis and the embeddings, stage 5 with the input, the
\* metadata, the analysis and the document_id of stage 4's output; each
\* value is the recorded output of the stage that produced it and the input
\* is the instance's input.
C9_PayloadsThreaded ==
  \A i \in created :
    LET calls == Scheduled(history[i])
        outs  == Results(history[i])
    IN \A k \in 1..Len(calls) :
         /\ k = 1 => calls[k].input = input[i]
         /\ k = 2 => calls[k].input =
              [video_info |-> input[i], metadata |-> outs[1].result]
         /\ k = 3 => calls[k].input =
              [video_info |-> input[i], analysis |-> outs[2].result,
               metadata |-> outs[1].result]
         /\ k = 4 => calls[k].input =
              [video_info |-> input[i], metadata |-> outs[1].result,
               analysis |-> outs[2].result, embeddings |-> outs[3].result]
         /\ k = 5 => calls[k].input =
              [video_info |-> input[i], metadata |-> outs[1].result,
               analysis |-> outs[2].result,
               search_document_id |-> outs[4].result.document_id]

\* All five stages were invoked, the last with the second document's id.
C9_Witness ==
  \E i \in created :
    /\ Len(Scheduled(history[i])) = NumStages
    /\ Scheduled(history[i])[5].input.search_document_id = "d2"
    /\ Scheduled(history[i])[5].input.metadata = [file_info |-> "f2"]
    /\ Scheduled(history[i])[5].input.analysis = [analysis_id |-> "a1"]

\* -------------------------------------------------------------------- C10
\* C10: after any execution the step records and the error records together
\* are as many as the stage invocations that returned: one step record per
\* invocation that succeeded, holding its result, and one error record per
\* invocation that failed, holding its message.
C10_OneRecordPerOutcome ==
  \A i \in created :
    history[i] # <<>> =>
      LET r  == orchestrator_function(input[i], history[i]).value
          rs == Results(history[i])
      IN /\ Len(r.steps) + Len(r.errors) = Len(rs)
         /\ Len(r.steps) = CountResults(i, "TaskCompleted")
         /\ Len(r.errors) = CountResults(i, "TaskFailed")
         /\ \A j \in 1..Len(r.steps) :
              rs[j].type = "TaskCompleted" /\ r.steps[j].result = rs[j].result
         /\ \A j \in 1..Len(r.errors) :
              r.errors[j].error = rs[Len(r.steps) + j].error
         /\ Finished(i) => output[i] = r

\* Two stages returned and the third failed.
C10_Witness ==
  \E i \in created :
    /\ Finished(i)
    /\ Len(output[i].steps) = 2
    /\ Len(output[i].errors) = 1
    /\ FailedStage(i) = 3

\* ------------------------------------------------------------ the starter

\* Everything the store holds about instance i.
Instance(i) ==
  <<i \in created, input[i], runtime_status[i], created_time[i],
    last_updated_time[i], history[i], output[i]>>

\* C11: a run of the starter on an object it classifies as not a video
\* creates no instance and returns without an error; a run on a video whose
\* start_new returns creates exactly one instance, under an identifier no
\* instance had, with the video_info derived from the event as its input
\* (the event's url, the last element of its subject), and leaves every
\* instance that existed as it was.  (start_new raising is C15's case.)
C11_StarterCreatesOneFreshInstance ==
  [][starter'.result # "none" =>
       LET e == starter'.event
           v == starter'.video_info
       IN IF starter'.start_new = "not called"
            THEN /\ starter'.result = "returned"
                 /\ created' = created
                 /\ \A j \in TwoIds : Instance(j)' = Instance(j)
          ELSE starter'.start_new = "returned" =>
                 /\ starter'.result = "returned"
                 /\ \E i \in TwoIds \ created :
                      /\ created' = created \cup {i}
                      /\ starter'.instance_id = i
                      /\ input'[i] = v
                      /\ v.blob_url = e.url
                      /\ endswith(e.subject, <<"/">> \o v.blob_name)
                      /\ runtime_status'[i] = "Pending"
                 /\ \A j \in created : Instance(j)' = Instance(j)
  ]_vars

\* The same blob uploaded again while its first instance is under way: the
\* starter has just created the second instance.
C11_Witness ==
  /\ created = TwoIds
  /\ starter.result = "returned"
  /\ starter.instance_id = "i2"
  /\ input["i1"] = input["i2"]
  /\ Len(history["i1"]) >= 3
  /\ runtime_status["i2"] = "Pending"

\* The content type is in the allow-list, letter case aside.
InAllowList(content_type) ==
  /\ Truthy(content_type)
  /\ \E j \in 1..Len(video_content_types) :
       /\ Len(content_type) = Len(video_content_types[j])
       /\ \A k \in 1..Len(content_type) :
            LowerChar(content_type[k]) = video_content_types[j][k]

\* The name ends with an allow-listed extension, letter case aside.
HasVideoExtension(name) ==
  /\ Truthy(name)
  /\ \E j \in 1..Len(video_extensions) :
       LET ext == video_extensions[j]
       IN /\ Len(name) >= Len(ext)
          /\ \A k \in 1..Len(ext) :
               LowerChar(name[Len(name) - Len(ext) + k]) = ext[k]

\* C12: the starter takes an object for a video exactly if its content type
\* is in the allow-list of video content types (letter case aside), or its
\* content type is absent or not in that list and its name ends (letter case
\* aside) with an allow-listed extension; ("video/mp4", "x") and
\* ("", "clip.mkv") are videos, ("image/png", "pic.png") and (None, None)
\* are not.
C12_IsVideoIffAllowListed ==
  /\ starter.result # "none" =>
       LET content_type == starter.video_info.content_type
           blob_name == starter.video_info.blob_name
       IN (starter.start_new # "not called") <=>
            \/ InAllowList(content_type)
            \/ ~ InAllowList(content_type) /\ HasVideoExtension(blob_name)
  /\ is_video_file(<<"v", "i", "d", "e", "o", "/", "m", "p", "4">>, <<"x">>)
  /\ is_video_file(<<>>, <<"c", "l", "i", "p", ".", "m", "k", "v">>)
  /\ ~ is_video_file(<<"i", "m", "a", "g", "e", "/", "p", "n", "g">>, <<"p", "i", "c", ".", "p", "n", "g">>)
  /\ ~ is_video_file(NoneStr, NoneStr)

\* The starter took an object with no content type for a video by its name,
\* upper case in the extension.
C12_Witness ==
  /\ starter.result = "returned"
  /\ starter.start_new = "returned"
  /\ starter.video_info.content_type = <<>>
  /\ starter.video_info.blob_name = <<"A", ".", "M", "P", "4">>

\* C15: when the starter takes the event for a video and start_new raises,
\* the starter raises to its caller and no instance was created: the set of
\* instances and every instance are as before.
C15_CreationFailurePropagates ==
  [][starter'.result # "none" /\ starter'.start_new = "raised" =>
       /\ starter'.result = "raised"
       /\ created' = created
       /\ \A j \in InstanceIds : Instance(j)' = Instance(j)
  ]_vars

\* start_new has raised for a video.
C15_Witness ==
  /\ starter.result = "raised"
  /\ starter.start_new = "raised"
  /\ is_video_file(starter.video_info.content_type,
                   starter.video_info.blob_name)
  /\ created = {}

\* ------------------------------------------------------ the status endpoint

\* The last step served a status request.
Served == response.status_code # 0

\* The last step served a request that names an instance id.
ServedById == Served /\ response.request.instance_id # None

\* C13: a status request for an identifier no instance has is answered with
\* a not-found response: status code 404, neither the 400 "Bad Request" nor
\* the 500 "Internal Server Error" response, nor a 200 with status data.
C13_UnknownIdIsNotFound ==
  (ServedById /\ response.request.instance_id \notin created) =>
     response.status_code = 404

\* The event types of a reported execution history, by kind.
ReportedCount(body, type) ==
  Cardinality({j \in 1..Len(body.execution_history) :
                 body.execution_history[j].event_type = type})

\* C14: whatever a status request for an instance reports, at any moment of
\* the instance's life, the steps in it are the first n stages in stage
\* order (metadata, analysis, embeddings, search_storage, insights) for some
\* n, each one a whole record (status completed, result, timestamp); and a
\* reported execution history shows every recorded outcome after its
\* stage's scheduling, at most one stage scheduled beyond the outcomes.
C14_QuerySeesPrefixOfStages ==
  (ServedById /\ response.status_code = 200) =>
     LET body == response.body
         steps == IF body.output = EmptyDict THEN <<>> ELSE body.output.steps
         n == Len(steps)
     IN /\ n <= 5
        /\ [j \in 1..n |-> steps[j].name] =
             SubSeq(<<"metadata", "analysis", "embeddings", "search_storage",
                      "insights">>, 1, n)
        /\ \A j \in 1..n :
             /\ DOMAIN steps[j] = {"name", "status", "result", "timestamp"}
             /\ steps[j].status = "completed"
             /\ steps[j].result \in AllResults
        /\ "execution_history" \in DOMAIN body =>
             LET done == ReportedCount(body, "TaskCompleted")
                         + ReportedCount(body, "TaskFailed")
                 sched == ReportedCount(body, "TaskScheduled")
             IN /\ sched \in {done, done + 1}
                /\ n <= ReportedCount(body, "TaskCompleted")

\* A request with its history, served while the instance is running with two
\* stages done and the third scheduled.
C14_Witness ==
  /\ ServedById
  /\ response.status_code = 200
  /\ response.body.runtime_status = "Running"
  /\ "execution_history" \in DOMAIN response.body
  /\ ReportedCount(response.body, "TaskCompleted") = 2
  /\ ReportedCount(response.body, "TaskScheduled") = 3

\* C16: the result of an instance whose five stages all succeeded has status
\* completed, its end_time, and processing_duration_seconds equal to
\* end_time minus start_time, which is not negative; the result of a failed
\* instance has its end_time too.
C16_DurationIsEndMinusStart ==
  \A i \in created :
    Finished(i) =>
      LET r == output[i]
      IN /\ "end_time" \in DOMAIN r
         /\ r.end_time[1] = "iso"
         /\ r.end_time[2] >= r.start_time[2]
         /\ r.status \in {"completed", "failed"}
         /\ Len(r.steps) = 5 => r.status = "completed"
         /\ r.status = "completed" =>
              /\ Len(r.steps) = 5
              /\ "processing_duration_seconds" \in DOMAIN r
              /\ r.processing_duration_seconds
                   = r.end_time[2] - r.start_time[2]
              /\ r.processing_duration_seconds >= 0

\* A completed instance whose pipeline took time.
C16_Witness ==
  \E i \in created :
    /\ Finished(i)
    /\ output[i].status = "completed"
    /\ output[i].processing_duration_seconds > 0

\* C17: the processing_duration in an answer about an instance is
\* last_updated_time minus created_time in seconds and not negative when
\* the instance has completed, and null while the instance is pending or
\* running.
C17_DurationOnlyOnceCompleted ==
  (ServedById /\ response.status_code = 200
     /\ response.request.instance_id \in created) =>
     LET i == response.request.instance_id
         body == response.body
     IN /\ last_updated_time[i] >= created_time[i]
        /\ IF runtime_status[i] \in {"Pending", "Running"}
             THEN body.processing_duration = NoneStr
             ELSE body.processing_duration =
                    <<last_updated_time[i] - created_time[i], "seconds">>

\* The numerical part of C17, whatever the instance's status: the reported
\* duration is last_updated_time minus created_time and is not negative.
C17_DurationIsUpdatedMinusCreated ==
  (ServedById /\ response.status_code = 200
     /\ response.request.instance_id \in created) =>
     LET i == response.request.instance_id
     IN /\ last_updated_time[i] >= created_time[i]
        /\ response.body.processing_duration =
             <<last_updated_time[i] - created_time[i], "seconds">>

\* The body of an answer holds nothing about an instance.
NoInstanceData(body) ==
  DOMAIN body \cap {"instance_id", "runtime_status", "created_time",
                    "last_updated_time", "processing_duration", "video_info",
                    "output", "custom_status", "execution_history",
                    "management_urls"} = {}

HistoryTypes(i) == [j \in 1..Len(history[i]) |-> history[i][j].type]

\* C19: an answer about an instance holds the execution history, in the
\* order of the instance's history, only if include_history was set; with
\* include_history set and no history to show the field is left out and the
\* request still succeeds; without include_history there is no such field.
C19_HistoryOnlyOnRequest ==
  (ServedById /\ response.request.instance_id \in created) =>
     LET i == response.request.instance_id
         body == response.body
     IN /\ response.status_code = 200
        /\ "execution_history" \in DOMAIN body <=>
             (response.request.include_history /\ history[i] # <<>>)
        /\ "execution_history" \in DOMAIN body =>
             [j \in 1..Len(body.execution_history) |->
                body.execution_history[j].event_type] = HistoryTypes(i)

\* A request for the history of an instance that has none yet.
C19_Witness ==
  /\ ServedById
  /\ response.status_code = 200
  /\ response.request.include_history
  /\ response.request.instance_id \in created
  /\ history[response.request.instance_id] = <<>>
  /\ "execution_history" \notin DOMAIN response.body

\* C20: a step that serves a status request (by instance id, by video name
\* or the list) leaves the set of instances and every instance's input,
\* runtime status, timestamps, history and output (status, steps, errors)
\* as they were.
C20_QueriesChangeNothing ==
  [][Served' =>
       /\ created' = created
       /\ \A i \in InstanceIds : Instance(i)' = Instance(i)
       /\ now' = now
  ]_vars

\* A request by video name served while an activity of the instance is in
\* flight.
C20_Witness ==
  /\ Served
  /\ response.request.instance_id = None
  /\ response.request.video_name \in VideoNames
  /\ \E i \in created : runtime_status[i] = "Running" /\ InFlight(i) = 3

\* ------------------------------------------------------------------ replay

\* C21: the result an instance returned is the result of executing the
\* orchestrator now over the instance's input and recorded history: the
\* same status, steps (order, results, timestamps), errors and times,
\* whatever the wall clock shows and however many times the orchestrator
\* was executed again on the way; and an instance still under way is at
\* the same yield with the same partial result at every execution.
C21_ReplayIsDeterministic ==
  \A i \in created :
    /\ Finished(i) =>
         LET run == orchestrator_function(input[i], history[i])
         IN /\ run.done
            /\ run.value = output[i]
    /\ (runtime_status[i] = "Running" /\ InFlight(i) # 0) =>
         LET run == orchestrator_function(input[i], history[i])
         IN /\ ~ run.done
            /\ run.stage = InFlight(i)
            /\ Len(run.value.steps) = InFlight(i) - 1
            /\ run.value.start_time = isoformat(history[i][1].ts)

\* An instance that started at time 0, was executed again over a history it
\* had run over, and completed, looked at when the clock has moved on.
C21_Witness ==
  \E i \in created :
    /\ Finished(i)
    /\ replayed[i]
    /\ output[i].status = "completed"
    /\ output[i].start_time = isoformat(0)
    /\ last_updated_time[i] = 0
    /\ now = 1

\* ---------------------------------------------------- the subject's parsing

\* The starter ran in the last step on an event with this subject.
RanOnSubject(s) ==
  /\ starter.result # "none"
  /\ "subject" \in DOMAIN starter.event
  /\ starter.event.subject = s

\* The subject has an element "containers".
HasContainersElement(s) ==
  \E j \in 1..Len(split(s, "/")) :
    split(s, "/")[j] = <<"c", "o", "n", "t", "a", "i", "n", "e", "r", "s">>

\* C22: run on a subject /blobServices/default/containers/{container}/
\* blobs/{blob}, the starter derives container_name = {container} and
\* blob_name = {blob}; run on a subject with no element "containers", or
\* with nothing after it, it derives the empty container name, and the
\* parsing raises nothing (the starter raises only if start_new does).
C22_SubjectParsed ==
  /\ \A c \in ContainerNames, b \in BlobPaths :
       RanOnSubject(ShapedSubject(c, b)) =>
         /\ starter.video_info.container_name = c
         /\ starter.video_info.blob_name = b
  /\ \A s \in OddSubjects :
       RanOnSubject(s) =>
         /\ starter.video_info.container_name = <<>>
         /\ starter.result = "raised" => starter.start_new = "raised"

\* What holds of the blob name: it is the subject's last path element, so
\* the blob's name only for a blob outside any virtual directory; the
\* container name is as C22 says.
C22_ContainerAndLastElement ==
  /\ \A c \in ContainerNames, b \in BlobPaths :
       RanOnSubject(ShapedSubject(c, b)) =>
         /\ starter.video_info.container_name = c
         /\ endswith(b, starter.video_info.blob_name)
         /\ \A j \in 1..Len(starter.video_info.blob_name) :
              starter.video_info.blob_name[j] # "/"
         /\ (\A j \in 1..Len(b) : b[j] # "/") =>
              starter.video_info.blob_name = b
  /\ \A s \in OddSubjects :
       RanOnSubject(s) =>
         /\ ~ HasContainersElement(s)
            \/ s \in {SubjectPrefix \o <<"/", "c", "o", "n", "t", "a", "i", "n", "e", "r", "s">>,
                      SubjectPrefix \o <<"/", "c", "o", "n", "t", "a", "i", "n", "e", "r", "s", "/">>}
         /\ starter.video_info.container_name = <<>>
         /\ starter.result = "raised" => starter.start_new = "raised"

\* -------------------------------------------------------- the classifiers

\* C28: on the content type and name of every event the starter classifies
\* (listed, unlisted, upper case, empty and absent ones), the starter's
\* is_video_file and shared.utils.config.is_video_file give the same answer,
\* and the starter goes on to start_new exactly if they say video.
C28_ClassifiersAgree ==
  starter.result # "none" =>
    LET content_type == starter.video_info.content_type
        name == starter.video_info.blob_name
    IN /\ is_video_file(content_type, name)
            = config_is_video_file(content_type, name)
       /\ (starter.start_new # "not called")
            = config_is_video_file(content_type, name)

\* Both say video for a name ending in .mkv that came with no content type
\* at all.
C28_Witness ==
  /\ starter.result = "returned"
  /\ starter.start_new = "returned"
  /\ "contentType" \notin DOMAIN starter.event.data
  /\ starter.video_info.blob_name = <<"c", "l", "i", "p", ".", "m", "k", "v">>
  /\ config_is_video_file(starter.video_info.content_type,
                          starter.video_info.blob_name)

\* ----------------------------------------------------------- two instances

\* C23: with two instances interleaved in every way, a step changes one
\* instance at most, so nothing B does (a failure included) changes A; and
\* what an instance returns is what the orchestrator gives on that
\* instance's own input and recorded outcomes, as when it runs alone.
C23_InstancesDoNotInteract ==
  [][/\ \A a \in TwoIds : \A b \in TwoIds \ {a} :
          Instance(b)' # Instance(b) => Instance(a)' = Instance(a)
     /\ \A a \in TwoIds :
          (a \in created' /\ runtime_status'[a] = "Completed") =>
             output'[a] = orchestrator_function(input'[a], history'[a]).value
  ]_vars

\* The second instance has failed at its first stage while the first, begun
\* earlier from another upload, has its third stage in flight.
C23_Witness ==
  /\ created = TwoIds
  /\ input["i1"] # input["i2"]
  /\ runtime_status["i1"] = "Running"
  /\ InFlight("i1") = 3
  /\ Finished("i2")
  /\ output["i2"].status = "failed"
  /\ FailedStage("i2") = 1

\* -------------------------------------------------------------- termination

\* C26: when the framework keeps executing the orchestrator and every
\* dispatched activity returns or raises in the end, every instance created
\* comes to return a result, and a returned result has status completed or
\* failed, never processing.
C26_OrchestratorReturns ==
  \A i \in InstanceIds :
    /\ [](Finished(i) => output[i].status \in {"completed", "failed"})
    /\ [](i \in created =>
            <>(Finished(i) /\ output[i] # EmptyDict
               /\ output[i].status \in {"completed", "failed"}))

\* An instance whose last activity raised has returned all the same.
C26_Witness ==
  \E i \in created :
    /\ Finished(i)
    /\ FailedStage(i) = 5
    /\ output[i].status = "failed"
    /\ "end_time" \in DOMAIN output[i]

\* ------------------------------------------------------- the HTTP handler

\* C27: every status request is answered, in every state and whatever the
\* client does, with an HTTP response: 400 and the JSON error "Bad Request"
\* for the ValueError of an instance not found, 500 and the JSON error
\* "Internal Server Error" for the client's exception, and 200 only with
\* what the selected handler returned; the requests that fail are lookups
\* of an id no instance has.
C27_HandlerAlwaysResponds ==
  /\ \A q \in StatusRequests :
       ENABLED StatusQuery(q.instance_id, q.video_name, q.include_history,
                           "raises")
  /\ Served =>
       LET body == response.body
           id == response.request.instance_id
       IN /\ response.status_code \in {200, 400, 500}
          /\ response.status_code = 400 =>
               /\ id # None /\ id \notin created
               /\ body = [error |-> "Bad Request",
                          message |-> <<"Orchestration instance", id,
                                        "not found">>]
          /\ response.status_code = 500 =>
               /\ id # None /\ id \notin created
               /\ body = [error |-> "Internal Server Error",
                          message |-> ClientRaised.exception]
          /\ response.status_code = 200 =>
               /\ "error" \notin DOMAIN body
               /\ \/ body = get_orchestration_status(
                              ClientGetStatus(id, response.request.include_history,
                                              "empty"),
                              id, response.request.include_history).value
                  \/ id = None /\ body = list_recent_orchestrations
                  \/ id = None
                     /\ \E n \in VideoNames :
                          body = find_orchestration_by_video_name(n)

\* The client raised while the handler looked an instance up: answered 500.
C27_Witness ==
  /\ Served
  /\ response.status_code = 500
  /\ response.body.error = "Internal Server Error"
  /\ response.request.instance_id \notin created

\* ------------------------------------------------------------------ C24

\* The activity that ended last, and whether it ran against the service.
LastActivity == worker.last.activity

\* C24: when the search service rejects the upload (the result's succeeded
\* is false), StoreInAzureSearch fails: the run raises and does not return
\* a success with a document_id.
C24_RejectedUploadFails ==
  (LastActivity = 4 /\ EndpointVar["search"] \in worker.env
     /\ worker.last.getter # "raised" /\ worker.last.service = "rejected")
    => /\ worker.last.raised # None
       /\ "document_id" \notin DOMAIN worker.last.value

\* ------------------------------------------------------------------ C25

\* C25: an activity whose endpoint is not configured runs in simulation
\* mode: it returns the simulated payload and does not fail.
C25_MissingEndpointSimulates ==
  (LastActivity \in 2..5 /\ EndpointVar[ClientOf(LastActivity)] \notin worker.env)
    => /\ worker.last.raised = None
       /\ worker.last.mode = "simulated"

\* What the code does instead: without the endpoint the getter's
\* constructor raises, and the activity fails with it (auxiliary).
C25_MissingEndpointRaises ==
  (LastActivity \in 2..5 /\ EndpointVar[ClientOf(LastActivity)] \notin worker.env)
    => /\ worker.last.raised = "Exception"
       /\ worker.last.getter = "raised"
       /\ \/ worker.last.message =
               <<ErrorMessage[LastActivity],
                 EndpointVar[ClientOf(LastActivity)], "not configured">>
          \/ /\ LastActivity = 2
             /\ worker.last.message =
                  <<ErrorMessage[LastActivity], "client setup failed">>

\* ------------------------------------------------------------------ C29

\* C29: each getter is a singleton of the process: at most one object of
\* its client is ever constructed, every call that returns yields that
\* object, and while a construction raises the stored instance stays unset,
\* so that the next call constructs again.
C29_GettersAreSingletons ==
  /\ \A c \in Clients :
       /\ worker.constructed[c] <= 1
       /\ worker.returned[c] \subseteq {1}
       /\ worker.instance[c] = worker.constructed[c]
       /\ worker.returned[c] # {} => worker.instance[c] \in worker.returned[c]
  /\ LastActivity \in 2..5 =>
       LET c == ClientOf(LastActivity)
       IN  /\ worker.last.getter = "raised" =>
                /\ worker.instance[c] = NoClient
                /\ worker.failed[c]
           /\ worker.last.getter = "constructed" => worker.instance[c] = 1
           /\ worker.last.getter = "cached" => worker.instance[c] = 1
           /\ worker.last.getter # "not called"

\* A construction raised, a later call constructed the client, and the
\* call after it was given the stored object.
C29_Witness ==
  /\ LastActivity = 5
  /\ worker.failed["openai"]
  /\ worker.instance["openai"] = 1
  /\ worker.last.getter = "cached"

====
